---- MODULE Spec2Model ----
(***************************************************************************)
(* resume-stats (src/src/main.rs): per-experience commit statistics of one *)
(* author, gathered by one tokio task per experience and merged into a     *)
(* mutex-guarded HashMap<String, Stats>.                                   *)
(*                                                                         *)
(* Strings whose characters the program inspects (repository paths, file   *)
(* names, extensions) are sequences of one-character strings.              *)
(* Option values are records: None, Some(v).                               *)
(* u64 sums are plain naturals: the added-line counts GitHub reports for   *)
(* real commits cannot add up to 2^64.                                     *)
(***************************************************************************)
EXTENDS Integers, Sequences, FiniteSets, TLC

\* ---------------------------------------------------------------- bounds
\* most repository paths a Stats.toml lists, over all its experiences
MaxRepos == 2
\* most commits the provider's listings yield in one run
MaxCommits == 2
\* most files of a commit when the classifier is checked on its own
MaxFiles == 2
\* most added lines of one file or commit when checked on their own
MaxAdditions == 2
\* most commits merged when the aggregator is checked on its own
MaxMerges == 3

\* ---------------------------------------------------------------- values
None == [some |-> FALSE]
Some(v) == [some |-> TRUE, val |-> v]

\* experience names (keys of NeededStats.experience)
Experiences == {"A", "B"}

\* repository-path strings a Stats.toml may hold
OwnerRepo == <<"o", "/", "r">>
OwnerOnly == <<"o", "w", "n", "e", "r", "o", "n", "l", "y">>
RepoStrings == {OwnerRepo, OwnerOnly}

\* file names and extensions
MainGo == <<"m", "a", "i", "n", ".", "g", "o">>
Readme == <<"R", "E", "A", "D", "M", "E">>
LibRs == <<"s", "r", "c", "/", "l", "i", "b", ".", "r", "s">>
APy == <<"a", ".", "p", "y">>
DotGo == <<".", "g", "o">>
DirDFile == <<"d", ".", "r", "s", "/", "f">>
Go == <<"g", "o">>
Rs == <<"r", "s">>

\* ---------------------------------------------------------------- strings
\* index of the first ch in s, 0 when there is none
RECURSIVE IndexFrom(_, _, _)
IndexFrom(s, ch, i) ==
    IF i > Len(s) THEN 0
    ELSE IF s[i] = ch THEN i
    ELSE IndexFrom(s, ch, i + 1)

\* index of the last ch in s, 0 when there is none
RECURSIVE LastIndexFrom(_, _, _)
LastIndexFrom(s, ch, i) ==
    IF i < 1 THEN 0
    ELSE IF s[i] = ch THEN i
    ELSE LastIndexFrom(s, ch, i - 1)

\* str::split_once: the parts before and after the first delimiter
SplitOnce(s, ch) ==
    LET i == IndexFrom(s, ch, 1)
    IN IF i = 0 THEN None
       ELSE Some(<<SubSeq(s, 1, i - 1), SubSeq(s, i + 1, Len(s))>>)

\* RepositoryPath::try_from: Ok(RepositoryPath) or Err
TryFromMissingOwner(value) ==
    LET parts == SplitOnce(value, "/")
    IN IF ~parts.some THEN [ok |-> TRUE, owner |-> <<>>, repository |-> value]
       ELSE [ok |-> TRUE, owner |-> parts.val[1], repository |-> parts.val[2]]

TryFrom(value) ==
    LET parts == SplitOnce(value, "/")
    IN IF ~parts.some THEN [ok |-> FALSE]
       ELSE [ok |-> TRUE, owner |-> parts.val[1], repository |-> parts.val[2]]

\* Path::file_name of a path as git reports it (no trailing '/', no "." or
\* ".." component): the part after the last '/'
FileNameOf(path) ==
    LET i == LastIndexFrom(path, "/", Len(path))
    IN SubSeq(path, i + 1, Len(path))

\* the extension as the part of the whole path after its last '.'
ExtensionAfterLastDot(path) ==
    LET i == LastIndexFrom(path, ".", Len(path))
    IN IF i = 0 THEN None ELSE Some(SubSeq(path, i + 1, Len(path)))

\* Path::extension: the part of the file name after its last '.', None when
\* the file name has no '.' or only a leading one
Extension(path) ==
    LET file == FileNameOf(path)
        i == LastIndexFrom(file, ".", Len(file))
    IN IF i = 0 \/ i = 1 THEN None
       ELSE Some(SubSeq(file, i + 1, Len(file)))

\* ---------------------------------------------------------------- classifier
\* one iteration of `for file in files` (lines 146-156)
ClassifyFileFiltered(file, needed, acc) ==
    LET extension == Extension(file.filename)
        matched == extension.some /\ extension.val \in needed
    IN [languages |-> IF matched THEN acc.languages \cup {extension.val}
                      ELSE acc.languages,
        lines |-> IF matched THEN acc.lines + file.additions ELSE acc.lines]

ClassifyFileUnfiltered(file, needed, acc) ==
    LET extension == Extension(file.filename)
    IN [languages |-> IF extension.some
                      THEN acc.languages \cup {extension.val}
                      ELSE acc.languages,
        lines |-> acc.lines + file.additions]

ClassifyFile(file, needed, acc) ==
    LET extension == Extension(file.filename)
    IN [languages |-> IF extension.some /\ extension.val \in needed
                      THEN acc.languages \cup {extension.val}
                      ELSE acc.languages,
        lines |-> acc.lines + file.additions]

RECURSIVE ClassifyFrom(_, _, _, _)
ClassifyFrom(files, needed, i, acc) ==
    IF i > Len(files) THEN acc
    ELSE ClassifyFrom(files, needed, i + 1, ClassifyFile(files[i], needed, acc))

\* lines 142-157: the languages and lines of one commit; commit.files is an
\* Option
Classify(files, needed) ==
    LET start == [languages |-> {}, lines |-> 0]
    IN IF files.some THEN ClassifyFrom(files.val, needed, 1, start) ELSE start

\* ---------------------------------------------------------------- aggregator
EmptyTable == [e \in {} |-> None]

\* lines 159-175 with the wrong key: every merge lands in one entry
MergeSharedKey(table, experience, languages, lines) ==
    LET key == CHOOSE e \in Experiences : TRUE
    IN IF key \in DOMAIN table
       THEN [table EXCEPT ![key] =
                [languages |-> @.languages \cup languages,
                 commits |-> @.commits + 1,
                 lines |-> @.lines + lines]]
       ELSE (key :> [languages |-> languages, commits |-> 1, lines |-> lines])
            @@ table

\* lines 159-175 with or_insert seeding an empty Stats
MergeEmptySeed(table, experience, languages, lines) ==
    IF experience \in DOMAIN table
    THEN [table EXCEPT ![experience] =
             [languages |-> @.languages \cup languages,
              commits |-> @.commits + 1,
              lines |-> @.lines + lines]]
    ELSE (experience :> [languages |-> {}, commits |-> 1, lines |-> 0])
         @@ table

\* lines 159-175 skipping a commit that contributes nothing
MergeSkipsEmpty(table, experience, languages, lines) ==
    IF languages = {} /\ lines = 0 THEN table
    ELSE IF experience \in DOMAIN table
    THEN [table EXCEPT ![experience] =
             [languages |-> @.languages \cup languages,
              commits |-> @.commits + 1,
              lines |-> @.lines + lines]]
    ELSE (experience :> [languages |-> languages, commits |-> 1, lines |-> lines])
         @@ table

\* lines 159-175 with and_modify replacing the languages
MergeLastLanguages(table, experience, languages, lines) ==
    IF experience \in DOMAIN table
    THEN [table EXCEPT ![experience] =
             [languages |-> languages,
              commits |-> @.commits + 1,
              lines |-> @.lines + lines]]
    ELSE (experience :> [languages |-> languages, commits |-> 1, lines |-> lines])
         @@ table

\* lines 159-175 with and_modify leaving the lines as they were
MergeForgetsLines(table, experience, languages, lines) ==
    IF experience \in DOMAIN table
    THEN [table EXCEPT ![experience] =
             [languages |-> @.languages \cup languages,
              commits |-> @.commits + 1,
              lines |-> @.lines]]
    ELSE (experience :> [languages |-> languages, commits |-> 1, lines |-> lines])
         @@ table

\* lines 159-175 with insert in place of the entry API
MergeReplaces(table, experience, languages, lines) ==
    (experience :> [languages |-> languages, commits |-> 1, lines |-> lines])
    @@ table

\* lines 159-175: entry(experience).and_modify(..).or_insert(..)
Merge(table, experience, languages, lines) ==
    IF experience \in DOMAIN table
    THEN [table EXCEPT ![experience] =
             [languages |-> @.languages \cup languages,
              commits |-> @.commits + 1,
              lines |-> @.lines + lines]]
    ELSE (experience :> [languages |-> languages, commits |-> 1, lines |-> lines])
         @@ table

\* ---------------------------------------------------------------- inputs
BoundedSeq(S, n) == UNION {[1..k -> S] : k \in 0..n}

\* the `languages` sets a Stats.toml may list
NeededSets == {{Go}, {Go, Rs}}

\* the `experience` tables a Stats.toml may hold
RECURSIVE SumOver(_, _)
SumOver(f, S) ==
    IF S = {} THEN 0
    ELSE LET x == CHOOSE y \in S : TRUE IN f[x] + SumOver(f, S \ {x})

ExperienceTables ==
    {t \in UNION {[E -> BoundedSeq(RepoStrings, MaxRepos)] :
                     E \in SUBSET Experiences} :
        SumOver([e \in DOMAIN t |-> Len(t[e])], DOMAIN t) <= MaxRepos}

\* Stats.toml: unreadable or not TOML (None), or a document
StatsTomls ==
    {None} \cup
    {Some([author |-> "alice", languages |-> l, experience |-> e]) :
        l \in NeededSets, e \in ExperienceTables}

\* the file lists (commit.files) the provider answers a commit detail with
CommitFiles ==
    {None,
     Some(<<[filename |-> MainGo, additions |-> 10],
            [filename |-> Readme, additions |-> 2]>>),
     Some(<<[filename |-> LibRs, additions |-> 3],
            [filename |-> APy, additions |-> 1]>>)}

\* ---------------------------------------------------------------- state
VARIABLES
    statsToml,       \* the content of Stats.toml
    keyring,         \* the credential store: "entry", "noentry", "failure"
    mainpc,          \* where try_main / main stands
    needed_stats,    \* Option<NeededStats> once Stats.toml is parsed
    spawned,         \* experiences whose task is in join_set
    joined,          \* experiences whose task join_next has returned
    stats,           \* the HashMap<String, Stats> behind the Mutex
    lockHolder,      \* who holds the Mutex: "free", "main" or an experience
    pc,              \* where each experience's task stands
    repoIdx,         \* repositories of the experience already scanned
    commits,         \* the collected Vec<Result<RepoCommit, Error>>
    cIdx,            \* commits of the Vec already handled
    languages,       \* the task's local `languages`
    lines,           \* the task's local `lines`
    reported,        \* what the report printed: None or Some(table)
    stderr,          \* number of error messages printed
    exitCode,        \* Option: the exit status of the process
    keyringAccessed, \* history: the credential store was accessed
    yielded,         \* history: commits each experience's listings yielded
    detailsSeen,     \* history: how often each file list was answered
    failedCall,      \* history: a provider call of the task has failed
    filesAbsent,     \* history: the commit in hand came without a file list
    printed,         \* the lines each task has printed above its progress bars
    lastOp,          \* history: the last request or merge of each task
    inflight,        \* provider requests of each task awaiting their answer
    classifyCase,    \* classifier harness: input and result
    mergeCase        \* aggregator harness: inputs, position, both tables

mainVars == <<statsToml, keyring, mainpc, needed_stats, spawned, joined,
              reported, stderr, exitCode, keyringAccessed>>
taskVars == <<pc, repoIdx, commits, cIdx, languages, lines, yielded,
              detailsSeen, failedCall, filesAbsent, printed, lastOp, inflight>>
harnessVars == <<classifyCase, mergeCase>>
vars == <<mainVars, taskVars, stats, lockHolder, harnessVars>>

\* the exit status of a `fn main()` that returns
MainExitCode == 0

NoDetails == [f \in CommitFiles |-> 0]

\* a task that has requested and merged nothing yet
NoOp == [op |-> "none", repo |-> 0, commit |-> 0]

InitProgram ==
    /\ statsToml \in StatsTomls
    /\ keyring \in {"entry", "noentry", "failure"}
    /\ mainpc = "load"
    /\ needed_stats = None
    /\ spawned = {}
    /\ joined = {}
    /\ stats = EmptyTable
    /\ lockHolder = "free"
    /\ pc = [e \in Experiences |-> "none"]
    /\ repoIdx = [e \in Experiences |-> 0]
    /\ commits = [e \in Experiences |-> <<>>]
    /\ cIdx = [e \in Experiences |-> 0]
    /\ languages = [e \in Experiences |-> {}]
    /\ lines = [e \in Experiences |-> 0]
    /\ reported = None
    /\ stderr = 0
    /\ exitCode = None
    /\ keyringAccessed = FALSE
    /\ yielded = [e \in Experiences |-> 0]
    /\ detailsSeen = [e \in Experiences |-> NoDetails]
    /\ failedCall = [e \in Experiences |-> FALSE]
    /\ filesAbsent = [e \in Experiences |-> FALSE]
    /\ printed = [e \in Experiences |-> <<>>]
    /\ lastOp = [e \in Experiences |-> NoOp]
    /\ inflight = [e \in Experiences |-> 0]

HarnessIdle ==
    /\ classifyCase = None
    /\ mergeCase = None

Init == InitProgram /\ HarnessIdle

\* ---------------------------------------------------------------- try_main
\* toml::from_str with RepositoryPath's try_from: the parsed NeededStats, or
\* None when a repository path fails to parse
ParseStats(doc) ==
    IF \E e \in DOMAIN doc.experience :
          \E i \in 1..Len(doc.experience[e]) : ~TryFrom(doc.experience[e][i]).ok
    THEN None
    ELSE Some([author |-> doc.author,
               languages |-> doc.languages,
               experience |->
                   [e \in DOMAIN doc.experience |->
                       [i \in 1..Len(doc.experience[e]) |->
                           TryFrom(doc.experience[e][i])]]])

\* lines 57-61
LoadConfig ==
    /\ mainpc = "load"
    /\ LET parsed == IF statsToml.some THEN ParseStats(statsToml.val) ELSE None
       IN /\ needed_stats' = parsed
          /\ mainpc' = IF parsed.some THEN "keyring" ELSE "failed"
    /\ UNCHANGED <<statsToml, keyring, spawned, joined, reported, stderr,
                   exitCode, keyringAccessed, taskVars, stats, lockHolder,
                   harnessVars>>

\* lines 62-80: the PAT from the keyring, or from a prompt that stores it
GetPat ==
    /\ mainpc = "keyring"
    /\ keyringAccessed' = TRUE
    /\ \/ /\ keyring = "entry"
          /\ mainpc' = "spawn"
          /\ UNCHANGED keyring
       \/ /\ keyring = "noentry"
          /\ \E prompted \in BOOLEAN, stored \in BOOLEAN :
                IF prompted /\ stored
                THEN mainpc' = "spawn" /\ keyring' = "entry"
                ELSE mainpc' = "failed" /\ UNCHANGED keyring
       \/ /\ keyring = "failure"
          /\ mainpc' = "failed"
          /\ UNCHANGED keyring
    /\ UNCHANGED <<statsToml, needed_stats, spawned, joined, reported, stderr,
                   exitCode, taskVars, stats, lockHolder, harnessVars>>

\* lines 96-192: one iteration of the spawning loop, in HashMap order
Spawn(e) ==
    /\ mainpc = "spawn"
    /\ e \in DOMAIN needed_stats.val.experience
    /\ e \notin spawned
    /\ spawned' = spawned \cup {e}
    /\ pc' = [pc EXCEPT ![e] = "repos"]
    /\ UNCHANGED <<statsToml, keyring, mainpc, needed_stats, joined, reported,
                   stderr, exitCode, keyringAccessed, repoIdx, commits, cIdx,
                   languages, lines, yielded, detailsSeen, failedCall,
                   filesAbsent, printed, lastOp, inflight, stats, lockHolder,
                   harnessVars>>

\* the spawning loop ends
SpawnEnd ==
    /\ mainpc = "spawn"
    /\ spawned = DOMAIN needed_stats.val.experience
    /\ mainpc' = "join"
    /\ UNCHANGED <<statsToml, keyring, needed_stats, spawned, joined, reported,
                   stderr, exitCode, keyringAccessed, taskVars, stats,
                   lockHolder, harnessVars>>

\* ---------------------------------------------------------------- the tasks
\* the experience's `repositories`
Repositories(e) == needed_stats.val.experience[e]

\* commits the provider may still yield in this run
CommitsLeft == MaxCommits - SumOver(yielded, Experiences)

\* n commits yielded without error
OkItems(n) == [i \in 1..n |-> "Ok"]

\* line 116: the head of `for RepositoryPath {..} in repositories`; the
\* task issues the commit listing (lines 119-124) or returns Ok(()) (line 190)
NextRepo(e) ==
    /\ pc[e] = "repos"
    /\ IF repoIdx[e] < Len(Repositories(e))
       THEN /\ pc' = [pc EXCEPT ![e] = "list_wait"]
            /\ inflight' = [inflight EXCEPT ![e] = @ + 1]
            /\ lastOp' = [lastOp EXCEPT ![e] =
                             [op |-> "list", repo |-> repoIdx[e] + 1, commit |-> 0]]
       ELSE /\ pc' = [pc EXCEPT ![e] = "ok"]
            /\ UNCHANGED <<inflight, lastOp>>
    /\ UNCHANGED <<mainVars, repoIdx, commits, cIdx, languages, lines, yielded,
                   detailsSeen, failedCall, filesAbsent, printed, stats,
                   lockHolder, harnessVars>>

\* lines 119-124: send().await? answers with the first page or an error
ListRespond(e) ==
    /\ pc[e] = "list_wait"
    /\ \/ /\ pc' = [pc EXCEPT ![e] = "err"]
          /\ failedCall' = [failedCall EXCEPT ![e] = TRUE]
          /\ inflight' = [inflight EXCEPT ![e] = @ - 1]
          /\ UNCHANGED <<commits, yielded>>
       \/ \E n \in 0..CommitsLeft, more \in BOOLEAN :
             /\ more => n >= 1
             /\ commits' = [commits EXCEPT ![e] = OkItems(n)]
             /\ yielded' = [yielded EXCEPT ![e] = @ + n]
             /\ pc' = [pc EXCEPT ![e] = IF more THEN "page_wait" ELSE "commits"]
             /\ inflight' = [inflight EXCEPT ![e] = IF more THEN @ ELSE @ - 1]
             /\ UNCHANGED failedCall
    /\ UNCHANGED <<mainVars, repoIdx, cIdx, languages, lines, detailsSeen,
                   filesAbsent, printed, lastOp, stats, lockHolder, harnessVars>>

\* lines 125-127: into_stream(..).collect() fetches the next page; a failed
\* page is collected as the last item of the Vec; with a further page the
\* answered request is followed by the next one
PageRespond(e) ==
    /\ pc[e] = "page_wait"
    /\ \/ /\ commits' = [commits EXCEPT ![e] = Append(@, "Err")]
          /\ failedCall' = [failedCall EXCEPT ![e] = TRUE]
          /\ pc' = [pc EXCEPT ![e] = "commits"]
          /\ inflight' = [inflight EXCEPT ![e] = @ - 1]
          /\ UNCHANGED yielded
       \/ \E n \in 0..CommitsLeft, more \in BOOLEAN :
             /\ more => n >= 1
             /\ commits' = [commits EXCEPT ![e] = @ \o OkItems(n)]
             /\ yielded' = [yielded EXCEPT ![e] = @ + n]
             /\ pc' = [pc EXCEPT ![e] = IF more THEN "page_wait" ELSE "commits"]
             /\ inflight' = [inflight EXCEPT ![e] = IF more THEN @ ELSE @ - 1]
             /\ UNCHANGED failedCall
    /\ UNCHANGED <<mainVars, repoIdx, cIdx, languages, lines, detailsSeen,
                   filesAbsent, printed, lastOp, stats, lockHolder, harnessVars>>

\* line 135: the item `for commit in commits` takes next
NextItemFromEnd(e) == Len(commits[e]) - cIdx[e]

NextItem(e) == cIdx[e] + 1

\* lines 135-141 with the details of all remaining commits requested at once
NextCommitAllAtOnce(e) ==
    /\ pc[e] = "commits"
    /\ IF cIdx[e] < Len(commits[e])
       THEN /\ IF commits[e][NextItem(e)] = "Err"
               THEN /\ pc' = [pc EXCEPT ![e] = "err"]
                    /\ UNCHANGED <<inflight, lastOp>>
               ELSE /\ pc' = [pc EXCEPT ![e] = "detail_wait"]
                    /\ inflight' = [inflight EXCEPT ![e] = @ + Len(commits[e]) - cIdx[e]]
                    /\ lastOp' = [lastOp EXCEPT ![e] =
                                     [op |-> "detail", repo |-> repoIdx[e] + 1,
                                      commit |-> NextItem(e)]]
            /\ UNCHANGED <<repoIdx, commits, cIdx, printed>>
       ELSE /\ repoIdx' = [repoIdx EXCEPT ![e] = @ + 1]
            /\ commits' = [commits EXCEPT ![e] = <<>>]
            /\ cIdx' = [cIdx EXCEPT ![e] = 0]
            /\ printed' = [printed EXCEPT ![e] =
                              Append(@, [kind |-> "Fetched",
                                         owner |-> Repositories(e)[repoIdx[e] + 1].owner,
                                         repository |->
                                            Repositories(e)[repoIdx[e] + 1].repository])]
            /\ pc' = [pc EXCEPT ![e] = "repos"]
            /\ UNCHANGED <<inflight, lastOp>>
    /\ UNCHANGED <<mainVars, languages, lines, yielded, detailsSeen,
                   failedCall, filesAbsent, stats, lockHolder, harnessVars>>

\* lines 135-141 and 180-186: the head of `for commit in commits`; `commit?`
\* returns the collected error, else the task requests the commit's detail;
\* after the last item the repository is done
NextCommit(e) ==
    /\ pc[e] = "commits"
    /\ IF cIdx[e] < Len(commits[e])
       THEN /\ IF commits[e][NextItem(e)] = "Err"
               THEN /\ pc' = [pc EXCEPT ![e] = "err"]
                    /\ UNCHANGED <<inflight, lastOp>>
               ELSE /\ pc' = [pc EXCEPT ![e] = "detail_wait"]
                    /\ inflight' = [inflight EXCEPT ![e] = @ + 1]
                    /\ lastOp' = [lastOp EXCEPT ![e] =
                                     [op |-> "detail", repo |-> repoIdx[e] + 1,
                                      commit |-> NextItem(e)]]
            /\ UNCHANGED <<repoIdx, commits, cIdx, printed>>
       ELSE /\ repoIdx' = [repoIdx EXCEPT ![e] = @ + 1]
            /\ commits' = [commits EXCEPT ![e] = <<>>]
            /\ cIdx' = [cIdx EXCEPT ![e] = 0]
            /\ printed' = [printed EXCEPT ![e] =
                              Append(@, [kind |-> "Fetched",
                                         owner |-> Repositories(e)[repoIdx[e] + 1].owner,
                                         repository |->
                                            Repositories(e)[repoIdx[e] + 1].repository])]
            /\ pc' = [pc EXCEPT ![e] = "repos"]
            /\ UNCHANGED <<inflight, lastOp>>
    /\ UNCHANGED <<mainVars, languages, lines, yielded, detailsSeen,
                   failedCall, filesAbsent, stats, lockHolder, harnessVars>>

\* lines 141-157: commit_handler.get(sha).await? answers; the task
\* classifies the commit's files
DetailRespond(e) ==
    /\ pc[e] = "detail_wait"
    /\ inflight' = [inflight EXCEPT ![e] = @ - 1]
    /\ \/ /\ pc' = [pc EXCEPT ![e] = "err"]
          /\ failedCall' = [failedCall EXCEPT ![e] = TRUE]
          /\ UNCHANGED <<languages, lines, detailsSeen, filesAbsent>>
       \/ \E files \in CommitFiles :
             LET classified == Classify(files, needed_stats.val.languages)
             IN /\ languages' = [languages EXCEPT ![e] = classified.languages]
                /\ lines' = [lines EXCEPT ![e] = classified.lines]
                /\ detailsSeen' = [detailsSeen EXCEPT ![e][files] = @ + 1]
                /\ filesAbsent' = [filesAbsent EXCEPT ![e] = ~files.some]
                /\ pc' = [pc EXCEPT ![e] = "lock"]
                /\ UNCHANGED failedCall
    /\ UNCHANGED <<mainVars, repoIdx, commits, cIdx, yielded, printed, lastOp,
                   stats, lockHolder, harnessVars>>

\* lines 159-161: stats.lock().await
Acquire(e) ==
    /\ pc[e] = "lock"
    /\ lockHolder = "free"
    /\ lockHolder' = e
    /\ pc' = [pc EXCEPT ![e] = "merge"]
    /\ UNCHANGED <<mainVars, repoIdx, commits, cIdx, languages, lines, yielded,
                   detailsSeen, failedCall, filesAbsent, printed, lastOp,
                   inflight, stats, harnessVars>>

\* lines 162-177 with the guard kept in a variable of the task
MergeCommitKeepsLock(e) ==
    /\ pc[e] = "merge"
    /\ lockHolder = e
    /\ stats' = Merge(stats, e, languages[e], lines[e])
    /\ lockHolder' = e
    /\ languages' = [languages EXCEPT ![e] = {}]
    /\ lines' = [lines EXCEPT ![e] = 0]
    /\ filesAbsent' = [filesAbsent EXCEPT ![e] = FALSE]
    /\ cIdx' = [cIdx EXCEPT ![e] = @ + 1]
    /\ pc' = [pc EXCEPT ![e] = "commits"]
    /\ lastOp' = [lastOp EXCEPT ![e] =
                     [op |-> "merge", repo |-> repoIdx[e] + 1, commit |-> cIdx[e] + 1]]
    /\ UNCHANGED <<mainVars, repoIdx, commits, yielded, detailsSeen,
                   failedCall, printed, inflight>>
    /\ UNCHANGED harnessVars

\* lines 162-177: the merge under the lock; the guard is dropped at the end
\* of the statement
MergeCommit(e) ==
    /\ pc[e] = "merge"
    /\ lockHolder = e
    /\ stats' = Merge(stats, e, languages[e], lines[e])
    /\ lockHolder' = "free"
    /\ languages' = [languages EXCEPT ![e] = {}]
    /\ lines' = [lines EXCEPT ![e] = 0]
    /\ filesAbsent' = [filesAbsent EXCEPT ![e] = FALSE]
    /\ cIdx' = [cIdx EXCEPT ![e] = @ + 1]
    /\ pc' = [pc EXCEPT ![e] = "commits"]
    /\ lastOp' = [lastOp EXCEPT ![e] =
                     [op |-> "merge", repo |-> repoIdx[e] + 1, commit |-> cIdx[e] + 1]]
    /\ UNCHANGED <<mainVars, repoIdx, commits, yielded, detailsSeen,
                   failedCall, printed, inflight>>
    /\ UNCHANGED harnessVars

\* ---------------------------------------------------------------- joining
Finished(e) == pc[e] \in {"ok", "err"}

\* `join_result??` on a task that returned an error: does try_main return it
JoinPropagatesIgnoring(result) == FALSE

JoinPropagates(result) == result = "err"

\* lines 194-198: join_next() hands over a finished task; an Err makes
\* try_main return, which drops join_set and aborts the tasks still running
JoinNext(e) ==
    /\ mainpc = "join"
    /\ e \in spawned \ joined
    /\ Finished(e)
    /\ joined' = joined \cup {e}
    /\ IF JoinPropagates(pc[e])
       THEN /\ mainpc' = "failed"
            /\ pc' = [x \in Experiences |->
                        IF pc[x] \in {"none", "ok", "err"} THEN pc[x]
                        ELSE "aborted"]
            /\ lockHolder' = "free"
            /\ inflight' = [x \in Experiences |-> 0]
       ELSE UNCHANGED <<mainpc, pc, lockHolder, inflight>>
    /\ UNCHANGED <<statsToml, keyring, needed_stats, spawned, reported, stderr,
                   exitCode, keyringAccessed, repoIdx, commits, cIdx,
                   languages, lines, yielded, detailsSeen, failedCall,
                   filesAbsent, printed, lastOp, stats, harnessVars>>

\* lines 194-207 with the loop left after the tasks finished so far
JoinEndEarly ==
    /\ mainpc = "join"
    /\ lockHolder = "free"
    /\ lockHolder' = "main"
    /\ mainpc' = "report"
    /\ UNCHANGED <<statsToml, keyring, needed_stats, spawned, joined, reported,
                   stderr, exitCode, keyringAccessed, taskVars, stats,
                   harnessVars>>

\* lines 194-207: join_next() returns None; try_main locks the table
JoinEnd ==
    /\ mainpc = "join"
    /\ joined = spawned
    /\ lockHolder = "free"
    /\ lockHolder' = "main"
    /\ mainpc' = "report"
    /\ UNCHANGED <<statsToml, keyring, needed_stats, spawned, joined, reported,
                   stderr, exitCode, keyringAccessed, taskVars, stats,
                   harnessVars>>

\* lines 209-245: the report is printed and try_main returns Ok(())
Report ==
    /\ mainpc = "report"
    /\ reported' = Some(stats)
    /\ lockHolder' = "free"
    /\ mainpc' = "done"
    /\ UNCHANGED <<statsToml, keyring, needed_stats, spawned, joined, stderr,
                   exitCode, keyringAccessed, taskVars, stats, harnessVars>>

\* lines 248-253: main prints the error, if any, and returns
MainReturn ==
    /\ mainpc \in {"done", "failed"}
    /\ stderr' = IF mainpc = "failed" THEN stderr + 1 ELSE stderr
    /\ exitCode' = Some(MainExitCode)
    /\ mainpc' = IF mainpc = "failed" THEN "exited_err" ELSE "exited_ok"
    /\ UNCHANGED <<statsToml, keyring, needed_stats, spawned, joined, reported,
                   keyringAccessed, taskVars, stats, lockHolder, harnessVars>>

Next ==
    \/ LoadConfig
    \/ GetPat
    \/ \E e \in Experiences : Spawn(e)
    \/ SpawnEnd
    \/ \E e \in Experiences : NextRepo(e)
    \/ \E e \in Experiences : ListRespond(e)
    \/ \E e \in Experiences : PageRespond(e)
    \/ \E e \in Experiences : NextCommit(e)
    \/ \E e \in Experiences : DetailRespond(e)
    \/ \E e \in Experiences : Acquire(e)
    \/ \E e \in Experiences : MergeCommit(e)
    \/ \E e \in Experiences : JoinNext(e)
    \/ JoinEnd
    \/ Report
    \/ MainReturn

Spec == Init /\ [][Next]_vars

\* ---------------------------------------------------------------- classifier alone
\* the program before it starts, with nothing to read
ProgramIdle == InitProgram /\ statsToml = None /\ keyring = "entry"

FileNames == {MainGo, Readme, LibRs, APy, DotGo, DirDFile}
FileChanges == [filename : FileNames, additions : 0..MaxAdditions]
FileLists == {None} \cup {Some(l) : l \in BoundedSeq(FileChanges, MaxFiles)}

InitClassify ==
    /\ ProgramIdle
    /\ mergeCase = None
    /\ classifyCase \in
          {Some([files |-> f, needed |-> n, result |-> None]) :
              f \in FileLists, n \in SUBSET {Go, Rs}}

\* lines 142-157 applied to the drawn commit
ClassifyApply ==
    /\ classifyCase.some
    /\ ~classifyCase.val.result.some
    /\ classifyCase' =
          Some([classifyCase.val EXCEPT
                   !.result = Some(Classify(classifyCase.val.files,
                                            classifyCase.val.needed))])
    /\ UNCHANGED <<mainVars, taskVars, stats, lockHolder, mergeCase>>

NextClassify == ClassifyApply

SpecClassify == InitClassify /\ [][NextClassify]_vars

\* ---------------------------------------------------------------- aggregator alone
ClassifiedCommits == [languages : SUBSET {Go, Rs}, lines : 0..MaxAdditions]

InitMerge ==
    /\ ProgramIdle
    /\ classifyCase = None
    /\ mergeCase \in
          {Some([inputs |-> c, i |-> 0, fwd |-> EmptyTable, rev |-> EmptyTable]) :
              c \in BoundedSeq(ClassifiedCommits, MaxMerges)}

\* lines 159-175 applied to the drawn commits, in the order drawn (fwd) and
\* in the opposite order (rev)
MergeApply ==
    /\ mergeCase.some
    /\ LET m == mergeCase.val
           n == Len(m.inputs)
       IN /\ m.i < n
          /\ mergeCase' =
                Some([m EXCEPT
                         !.i = @ + 1,
                         !.fwd = Merge(@, "A", m.inputs[m.i + 1].languages,
                                       m.inputs[m.i + 1].lines),
                         !.rev = Merge(@, "A", m.inputs[n - m.i].languages,
                                       m.inputs[n - m.i].lines)])
    /\ UNCHANGED <<mainVars, taskVars, stats, lockHolder, classifyCase>>

NextMerge == MergeApply

SpecMerge == InitMerge /\ [][NextMerge]_vars

\* ---------------------------------------------------------------- properties
\* the entry of an experience, as an Option
EntryOf(table, e) == IF e \in DOMAIN table THEN Some(table[e]) ELSE None

\* the sum of the added lines of all files of a list
TotalAdditions(files) ==
    SumOver([i \in 1..Len(files) |-> files[i].additions], 1..Len(files))

\* the extensions of the files of a list
ExtensionsIn(files) ==
    {Extension(files[i].filename).val :
        i \in {j \in 1..Len(files) : Extension(files[j].filename).some}}

\* the file lists answered for the commits of an experience so far
Answered(e) == {f \in CommitFiles : detailsSeen[e][f] > 0}

\* the scenario's file list: main.go with 10 added lines, README with 2
GoAndReadme ==
    Some(<<[filename |-> MainGo, additions |-> 10],
           [filename |-> Readme, additions |-> 2]>>)

\* a file list without a needed language when only "go" is needed
RsAndPy ==
    Some(<<[filename |-> LibRs, additions |-> 3],
           [filename |-> APy, additions |-> 1]>>)

\* C1: in every step, the entry of an experience changes only in a merge
\* step of that experience's own task, which holds the lock, and the change
\* adds exactly that task's classified commit: no other task's merge touches
\* the entry.
C1_NoCrossContamination ==
    [][\A a \in Experiences :
          EntryOf(stats', a) # EntryOf(stats, a) =>
             /\ a \in DOMAIN stats'
             /\ pc[a] = "merge"
             /\ lockHolder = a
             /\ pc'[a] = "commits"
             /\ stats'[a].languages =
                   (IF a \in DOMAIN stats THEN stats[a].languages ELSE {})
                   \cup languages[a]
             /\ stats'[a].commits =
                   (IF a \in DOMAIN stats THEN stats[a].commits ELSE 0) + 1
             /\ stats'[a].lines =
                   (IF a \in DOMAIN stats THEN stats[a].lines ELSE 0) + lines[a]
             /\ \A b \in Experiences \ {a} : EntryOf(stats', b) = EntryOf(stats, b)]_vars

\* two tasks have merged and each entry holds its own task's commit
C1_Witness ==
    /\ DOMAIN stats = {"A", "B"}
    /\ stats["A"] = [languages |-> {Go}, commits |-> 1, lines |-> 12]
    /\ stats["B"] = [languages |-> {}, commits |-> 1, lines |-> 0]
    /\ detailsSeen["A"][GoAndReadme] = 1
    /\ detailsSeen["B"][None] = 1

\* C2: when a task has returned Ok, its experience's entry counts every
\* commit its listings yielded exactly once: commits is the number yielded,
\* lines the sum of the added lines of all files answered for them, languages
\* the needed extensions among those files; with no commit yielded there is
\* no entry.
C2_EveryCommitMergedOnce ==
    \A e \in Experiences :
       pc[e] = "ok" =>
          IF yielded[e] = 0 THEN e \notin DOMAIN stats
          ELSE /\ e \in DOMAIN stats
               /\ stats[e].commits = yielded[e]
               /\ stats[e].lines =
                     SumOver([f \in CommitFiles |->
                                 IF f.some
                                 THEN detailsSeen[e][f] * TotalAdditions(f.val)
                                 ELSE 0],
                             CommitFiles)
               /\ stats[e].languages =
                     UNION {ExtensionsIn(f.val) : f \in {g \in Answered(e) : g.some}}
                     \cap needed_stats.val.languages

\* the scenario: languages {go}, a commit [main.go 10, README 2] and a commit
\* without file detail give {go}, 2 commits, 12 lines
C2_Witness ==
    /\ pc["A"] = "ok"
    /\ needed_stats.some
    /\ needed_stats.val.languages = {Go}
    /\ Len(needed_stats.val.experience["A"]) = 1
    /\ yielded["A"] = 2
    /\ detailsSeen["A"][GoAndReadme] = 1
    /\ detailsSeen["A"][None] = 1
    /\ stats["A"] = [languages |-> {Go}, commits |-> 2, lines |-> 12]

\* C3: once a provider call of any task has failed the report is never
\* printed, and a printed report means every task returned Ok.
C3_AllOrNothing ==
    /\ (\E e \in Experiences : failedCall[e] \/ pc[e] = "err") => ~reported.some
    /\ reported.some =>
          /\ needed_stats.some
          /\ \A e \in DOMAIN needed_stats.val.experience : pc[e] = "ok"

\* one task failed after another had returned Ok with commits merged, and
\* the run ended without a report
C3_Witness ==
    /\ mainpc = "exited_err"
    /\ pc["A"] = "ok"
    /\ "A" \in DOMAIN stats
    /\ "A" \in joined
    /\ failedCall["B"]
    /\ "B" \in DOMAIN stats
    /\ ~reported.some

\* C4: a run that ends on a fatal condition has printed one error message
\* and its exit status is a failure status (not 0).
C4_FailureExitStatus ==
    mainpc = "exited_err" => (stderr = 1 /\ exitCode.val # 0)

\* C5: once a provider call of a task has failed, the task requests no
\* commit detail and merges nothing.
C5_FailurePropagatesAtOnce ==
    [][\A e \in Experiences :
          failedCall[e] =>
             /\ pc'[e] = "detail_wait" => pc[e] = "detail_wait"
             /\ EntryOf(stats', e) = EntryOf(stats, e)]_vars

\* C6: for every file list, the classified lines are the sum of the added
\* lines of all its files, whatever their extensions.
C6_LinesCountEveryFile ==
    (classifyCase.some /\ classifyCase.val.result.some /\ classifyCase.val.files.some)
       => classifyCase.val.result.val.lines =
             TotalAdditions(classifyCase.val.files.val)

\* a list of a file without extension and a file whose extension is not
\* needed has been classified, and their lines are counted
C6_Witness ==
    /\ classifyCase.some
    /\ classifyCase.val.needed = {Go}
    /\ classifyCase.val.files =
          Some(<<[filename |-> Readme, additions |-> 2],
                 [filename |-> APy, additions |-> 1]>>)
    /\ classifyCase.val.result = Some([languages |-> {}, lines |-> 3])

\* C7: the languages of every entry of the table, and of every commit
\* classified by a task, are among the needed languages.
C7_LanguagesAreNeeded ==
    needed_stats.some =>
       /\ \A e \in DOMAIN stats : stats[e].languages \subseteq needed_stats.val.languages
       /\ \A e \in Experiences : languages[e] \subseteq needed_stats.val.languages

\* only "go" is needed and a commit of lib.rs and a.py was merged: its lines
\* are counted, its extensions are not
C7_Witness ==
    /\ needed_stats.some
    /\ needed_stats.val.languages = {Go}
    /\ "A" \in DOMAIN stats
    /\ detailsSeen["A"][RsAndPy] = 1
    /\ stats["A"] = [languages |-> {}, commits |-> 1, lines |-> 4]

\* C8: a commit answered without a file list classifies to no languages and
\* 0 lines, does not fail the task, and its merge adds 1 to the entry's
\* commits and leaves its languages and lines as they were (a new entry has no
\* languages and 0 lines); the task goes on with the next commit.
C8_AbsentFilesStillCounted ==
    [][\A e \in Experiences :
          /\ (pc[e] = "detail_wait" /\ filesAbsent'[e]) =>
                (languages'[e] = {} /\ lines'[e] = 0 /\ pc'[e] = "lock")
          /\ (pc[e] = "merge" /\ filesAbsent[e] /\ pc'[e] \notin {"merge", "aborted"}) =>
                /\ pc'[e] = "commits"
                /\ cIdx'[e] = cIdx[e] + 1
                /\ e \in DOMAIN stats'
                /\ stats'[e] =
                      IF e \in DOMAIN stats
                      THEN [stats[e] EXCEPT !.commits = @ + 1]
                      ELSE [languages |-> {}, commits |-> 1, lines |-> 0]]_vars

\* a commit without file list was merged into an existing entry and the task
\* returned Ok
C8_Witness ==
    /\ pc["A"] = "ok"
    /\ detailsSeen["A"][None] = 1
    /\ detailsSeen["A"][RsAndPy] = 1
    /\ needed_stats.val.languages = {Go, Rs}
    /\ stats["A"] = [languages |-> {Rs}, commits |-> 2, lines |-> 4]

\* a repository path of the Stats.toml has no '/'
HasPathWithoutSlash ==
    /\ statsToml.some
    /\ \E e \in DOMAIN statsToml.val.experience :
          \E i \in 1..Len(statsToml.val.experience[e]) :
             \A k \in 1..Len(statsToml.val.experience[e][i]) :
                statsToml.val.experience[e][i][k] # "/"

\* C9: with a repository path without '/', loading fails and nothing else
\* happens: no keyring access, no task, no provider call, an empty table, no
\* report.
C9_MalformedPathFailsLoading ==
    HasPathWithoutSlash =>
       /\ mainpc \in {"load", "failed", "exited_err"}
       /\ ~needed_stats.some
       /\ ~keyringAccessed
       /\ spawned = {}
       /\ \A e \in Experiences : pc[e] = "none"
       /\ stats = EmptyTable
       /\ ~reported.some

\* a Stats.toml with a good path and "owneronly" ended the run in an error
C9_Witness ==
    /\ mainpc = "exited_err"
    /\ statsToml.some
    /\ DOMAIN statsToml.val.experience = {"A", "B"}
    /\ statsToml.val.experience["A"] = <<OwnerRepo>>
    /\ statsToml.val.experience["B"] = <<OwnerOnly>>
    /\ stderr = 1

\* C10: once all drawn commits are merged into a fresh entry, merging them
\* in the order drawn and in the opposite order give the same table.
C10_MergeCommutes ==
    (mergeCase.some /\ mergeCase.val.i = Len(mergeCase.val.inputs))
       => mergeCase.val.fwd = mergeCase.val.rev

\* two different commits were merged in both orders: the first merge created
\* the entry, the second updated it
C10_Witness ==
    /\ mergeCase.some
    /\ mergeCase.val.i = 2
    /\ mergeCase.val.inputs =
          <<[languages |-> {Go}, lines |-> 1], [languages |-> {Rs}, lines |-> 2]>>
    /\ mergeCase.val.fwd = ("A" :> [languages |-> {Go, Rs}, commits |-> 2, lines |-> 3])
    /\ mergeCase.val.rev = mergeCase.val.fwd

\* C11: when the last N merges (N >= 1) were of the same commit, the entry's
\* commits are N more, its lines N times the commit's lines more, and its
\* languages the commit's languages more than after the merges before them;
\* with no merge before them the first one creates the entry with 1 commit,
\* the commit's lines and the commit's languages.
C11_RepeatedMergeAdds ==
    mergeCase.some =>
       LET m == mergeCase.val
           i == m.i
       IN \A j \in 0..(i - 1) :
             (\A k \in (j + 1)..i : m.inputs[k] = m.inputs[i]) =>
                /\ "A" \in DOMAIN m.fwd
                /\ m.fwd["A"].commits = j + (i - j)
                /\ m.fwd["A"].lines =
                      SumOver([k \in 1..j |-> m.inputs[k].lines], 1..j)
                      + (i - j) * m.inputs[i].lines
                /\ m.fwd["A"].languages =
                      UNION {m.inputs[k].languages : k \in 1..j}
                      \cup m.inputs[i].languages

\* a commit was merged twice into an entry another commit had created
C11_Witness ==
    /\ mergeCase.some
    /\ mergeCase.val.i = 3
    /\ mergeCase.val.inputs =
          <<[languages |-> {Go}, lines |-> 1],
            [languages |-> {Rs}, lines |-> 2],
            [languages |-> {Rs}, lines |-> 2]>>
    /\ mergeCase.val.fwd = ("A" :> [languages |-> {Go, Rs}, commits |-> 3, lines |-> 5])

\* the classifier was applied to a commit with a file list
ClassifiedList ==
    classifyCase.some /\ classifyCase.val.result.some /\ classifyCase.val.files.some

\* C12 as stated: the languages of a commit are the needed ones among the
\* parts after the last '.' of its files' names, for every shape of name; the
\* lines of every file are counted.
C12_ExtensionAfterLastDot ==
    ClassifiedList =>
       LET files == classifyCase.val.files.val
       IN /\ classifyCase.val.result.val.languages =
                {ExtensionAfterLastDot(files[i].filename).val :
                    i \in {j \in 1..Len(files) :
                              ExtensionAfterLastDot(files[j].filename).some}}
                \cap classifyCase.val.needed
          /\ classifyCase.val.result.val.lines = TotalAdditions(files)

\* x follows a '.' of name that is neither the first character of name nor
\* of a path component, and x holds no '.' and no '/'
IsExtensionOf(x, name) ==
    \E k \in 2..Len(name) :
       /\ name[k] = "."
       /\ name[k - 1] # "/"
       /\ SubSeq(name, k + 1, Len(name)) = x
       /\ \A c \in 1..Len(x) : x[c] \notin {".", "/"}

\* C12, amended: the languages of a commit are the needed ones among the
\* parts after the last '.' of its files' last path components, a leading '.'
\* not counting; the lines of every file are counted.
C12_ExtensionOfFileName ==
    ClassifiedList =>
       LET files == classifyCase.val.files.val
       IN /\ classifyCase.val.result.val.languages =
                {x \in classifyCase.val.needed :
                    \E i \in 1..Len(files) : IsExtensionOf(x, files[i].filename)}
          /\ classifyCase.val.result.val.lines = TotalAdditions(files)

\* ".go" and "d.rs/f" were classified with go and rs needed: no language,
\* both files' lines
C12_Witness ==
    /\ classifyCase.some
    /\ classifyCase.val.needed = {Go, Rs}
    /\ classifyCase.val.files =
          Some(<<[filename |-> DotGo, additions |-> 1],
                 [filename |-> DirDFile, additions |-> 1]>>)
    /\ classifyCase.val.result = Some([languages |-> {}, lines |-> 2])

\* C13: when a commit answered without a file list has been handled, the
\* task has printed a line saying that its file detail was unavailable.
C13_AbsentFilesReported ==
    \A e \in Experiences :
       (detailsSeen[e][None] > 0 /\ pc[e] = "ok") =>
          \E i \in 1..Len(printed[e]) : printed[e][i].kind # "Fetched"

\* C14: the lock is held by a task only in its merge, and by try_main only
\* for the report: no task holds it while a provider request of its own is in
\* flight, so a task waiting for the provider keeps no other task from
\* merging.
C14_LockOnlyForMerge ==
    /\ \A e \in Experiences :
          /\ lockHolder = e => (pc[e] = "merge" /\ inflight[e] = 0)
          /\ pc[e] \in {"list_wait", "page_wait", "detail_wait"} => lockHolder # e
    /\ lockHolder = "main" => mainpc = "report"

\* one task holds the lock for its merge while the other waits for a commit
\* detail
C14_Witness ==
    /\ lockHolder = "A"
    /\ pc["A"] = "merge"
    /\ pc["B"] = "detail_wait"
    /\ inflight["B"] = 1

\* the commits classified so far for an experience
Classified(e) == SumOver(detailsSeen[e], CommitFiles)

\* C15 as stated: in every reachable state an experience has an entry
\* exactly when a commit has been classified for it.
C15_EntryIffClassified ==
    \A e \in Experiences : e \in DOMAIN stats <=> Classified(e) >= 1

\* C15, amended: an entry exists only with a commit classified; a classified
\* commit's entry exists when its task is not between the classification and
\* the end of the merge (nor was aborted there); with no commit yielded there
\* is no entry.
C15_EntryIffMerged ==
    \A e \in Experiences :
       /\ e \in DOMAIN stats => Classified(e) >= 1
       /\ pc[e] \notin {"lock", "merge", "aborted"} =>
             (e \in DOMAIN stats <=> Classified(e) >= 1)
       /\ (e \notin DOMAIN stats /\ Classified(e) >= 1) => Classified(e) = 1
       /\ yielded[e] = 0 => e \notin DOMAIN stats

\* both tasks returned Ok: the one with a commit has an entry, the one whose
\* repository yielded no commit has none
C15_Witness ==
    /\ pc["A"] = "ok"
    /\ pc["B"] = "ok"
    /\ Len(needed_stats.val.experience["B"]) = 1
    /\ yielded["B"] = 0
    /\ Classified("A") = 1
    /\ DOMAIN stats = {"A"}

\* C16: in every step every entry stays in the table, its languages keep
\* their elements, and its commits and lines do not decrease.
C16_TableOnlyGrows ==
    [][\A e \in DOMAIN stats :
          /\ e \in DOMAIN stats'
          /\ stats[e].languages \subseteq stats'[e].languages
          /\ stats[e].commits <= stats'[e].commits
          /\ stats[e].lines <= stats'[e].lines]_vars

\* an entry has grown by a second commit with another language
C16_Witness ==
    /\ "A" \in DOMAIN stats
    /\ detailsSeen["A"][GoAndReadme] = 1
    /\ detailsSeen["A"][RsAndPy] = 1
    /\ stats["A"] = [languages |-> {Go, Rs}, commits |-> 2, lines |-> 16]

\* try_main has started the report
Reporting == {"report", "done", "exited_ok"}

\* C19: when try_main reports, every task has been joined after returning
\* Ok, no step changes the table any more, and what the report prints is the
\* table as it stays.
C19_ReportReadsFinalTable ==
    [][/\ mainpc \in Reporting =>
             /\ stats' = stats
             /\ \A e \in DOMAIN needed_stats.val.experience :
                   pc[e] = "ok" /\ e \in joined
       /\ mainpc' \in Reporting =>
             \A e \in DOMAIN needed_stats'.val.experience :
                pc'[e] = "ok" /\ e \in joined'
       /\ reported'.some => reported'.val = stats']_vars

\* the report of two experiences' entries was printed
C19_Witness ==
    /\ mainpc = "exited_ok"
    /\ reported = Some(stats)
    /\ DOMAIN stats = {"A", "B"}

\* b may follow a as the next request or merge of a task: a listing is
\* followed by the detail of its first commit or by the next listing, a
\* detail by the merge of its commit, a merge by the detail of the next commit
\* or by the next repository's listing
FollowsInOrder(a, b) ==
    \/ /\ b.op = "list"
       /\ \/ a = NoOp /\ b.repo = 1
          \/ a.op \in {"list", "merge"} /\ b.repo = a.repo + 1
    \/ /\ b.op = "detail"
       /\ b.repo = a.repo
       /\ \/ a.op = "list" /\ b.commit = 1
          \/ a.op = "merge" /\ b.commit = a.commit + 1
    \/ /\ b.op = "merge"
       /\ a.op = "detail"
       /\ b.repo = a.repo
       /\ b.commit = a.commit

\* C17: the requests and merges of a task follow one another in the order
\* of the repositories and, within a repository, of the commits yielded; a
\* request is issued only with the merge before it done (lock released) and
\* no other request of the task in flight.
C17_SequentialWithinTask ==
    [][\A e \in Experiences :
          lastOp'[e] # lastOp[e] =>
             /\ FollowsInOrder(lastOp[e], lastOp'[e])
             /\ lastOp'[e].repo <= Len(Repositories(e))
             /\ lastOp'[e].op \in {"list", "detail"} =>
                   /\ lockHolder # e
                   /\ lockHolder' # e
                   /\ inflight[e] = 0
             /\ lastOp'[e].op = "detail" => lastOp'[e].commit <= Len(commits[e])]_vars

\* a task has merged the commit of its first repository and then the commit
\* of its second
C17_Witness ==
    /\ lastOp["A"] = [op |-> "merge", repo |-> 2, commit |-> 1]
    /\ "A" \in DOMAIN stats
    /\ stats["A"].commits = 2
    /\ Len(printed["A"]) = 1

\* C18: every task has at most one provider request in flight, and only
\* while it waits for the answer; all tasks together have no more in flight
\* than there are experiences.
C18_OneRequestPerTask ==
    /\ \A e \in Experiences :
          /\ inflight[e] \in {0, 1}
          /\ inflight[e] = 1 <=> pc[e] \in {"list_wait", "page_wait", "detail_wait"}
    /\ needed_stats.some =>
          SumOver(inflight, Experiences)
             <= Cardinality(DOMAIN needed_stats.val.experience)

\* both tasks have a request in flight, one for a listing, one for a
\* commit's detail
C18_Witness ==
    /\ pc["A"] = "detail_wait"
    /\ pc["B"] = "list_wait"
    /\ inflight = [e \in Experiences |-> 1]

\* ---------------------------------------------------------------- termination
\* tokio polls every task that can go on and the provider answers every
\* request: a step that can be taken is eventually taken
SpecFair == Spec /\ WF_vars(Next)

\* the run ended with the report, every task having returned Ok
ExitedWithReport ==
    /\ mainpc = "exited_ok"
    /\ reported.some
    /\ \A e \in DOMAIN needed_stats.val.experience : pc[e] = "ok"

\* the run ended with an error message and no report: before any task was
\* spawned, or on the first error join_next handed over
ExitedWithError ==
    /\ mainpc = "exited_err"
    /\ ~reported.some
    /\ stderr = 1
    /\ spawned = {} \/ \E e \in joined : pc[e] = "err"

\* C20: every run ends, with the report or with the first error observed.
C20_Terminates == <>(ExitedWithReport \/ ExitedWithError)

\* the run ended on one task's error while the other task, waiting for the
\* lock or the provider, was aborted
C20_Witness ==
    /\ mainpc = "exited_err"
    /\ pc["A"] = "err"
    /\ pc["B"] = "aborted"
    /\ "B" \in DOMAIN stats

====
